---- MODULE Spec2Model ----
(***************************************************************************)
(* ModelOperatorBigQueryLocation                                           *)
(* (src/service_implementations/model/bigquery_base.py): the adapter that  *)
(* trains, predicts with and reads the training diagnostics of a model     *)
(* hosted in the warehouse.  Text is modelled by TLC strings, so that      *)
(* formatting, lower-casing and concatenation are computed, not assumed.   *)
(***************************************************************************)
EXTENDS Integers, Sequences, FiniteSets, TLC

VARIABLES ad, call, job, hist

vars == <<ad, call, job, hist>>

(***************************************************************************)
(* Bounds of the model.                                                    *)
(***************************************************************************)
\* Largest number of options a caller passes to instantiate_model.
MaxOpts == 2
\* Largest number of label columns of a train_y descriptor.
MaxLabelCols == 2
\* Largest number of rows a training-diagnostics job returns.
MaxRows == 2

(***************************************************************************)
(* Text.                                                                   *)
(***************************************************************************)
\* The character ` of the SQL templates: the TLA+ lexer refuses it inside a
\* string literal, so ^ (used nowhere else) stands for it.
Backtick == "^"

Uppers == "ABCDEFGHIJKLMNOPQRSTUVWXYZ"

Lowers == "abcdefghijklmnopqrstuvwxyz"

\* The lower-case letter of each upper-case letter
LowerOf ==
    [c \in { SubSeq(Uppers, i, i) : i \in 1..Len(Uppers) } |->
        LET i == CHOOSE j \in 1..Len(Uppers) : SubSeq(Uppers, j, j) = c
        IN  SubSeq(Lowers, i, i)]

\* One character of str.lower()
LowerChar(c) == IF c \in DOMAIN LowerOf THEN LowerOf[c] ELSE c

RECURSIVE Lower(_)
\* str.lower()
Lower(s) == IF s = "" THEN "" ELSE LowerChar(Head(s)) \o Lower(Tail(s))

RECURSIVE Join(_, _)
\* sep.join(parts)
Join(sep, parts) ==
    IF parts = <<>> THEN ""
    ELSE IF Len(parts) = 1 THEN parts[1]
    ELSE parts[1] \o sep \o Join(sep, Tail(parts))

(***************************************************************************)
(* Python values held by the configuration mapping: str, int, bool, list   *)
(* of str.  One record shape, the field named by t holds the value.        *)
(***************************************************************************)
StrV(x) == [t |-> "str", s |-> x, n |-> 0, b |-> FALSE, l |-> <<>>]

IntV(x) == [t |-> "int", s |-> "", n |-> x, b |-> FALSE, l |-> <<>>]

BoolV(x) == [t |-> "bool", s |-> "", n |-> 0, b |-> x, l |-> <<>>]

ListV(x) == [t |-> "list", s |-> "", n |-> 0, b |-> FALSE, l |-> x]

\* isinstance(value, str)
IsStr(value) == value.t = "str"

\* repr() of a str element of a list
PyRepr(x) == "'" \o x \o "'"

\* str(value), what an f-string renders for {value}
PyStr(value) ==
    CASE value.t = "str"  -> value.s
      [] value.t = "int"  -> ToString(value.n)
      [] value.t = "bool" -> (IF value.b THEN "True" ELSE "False")
      [] value.t = "list" ->
            "[" \o Join(", ", [i \in 1..Len(value.l) |-> PyRepr(value.l[i])]) \o "]"

(***************************************************************************)
(* The configuration mapping (a Python dict): a sequence of entries with   *)
(* distinct keys, in insertion order.                                      *)
(***************************************************************************)
Keys(d) == [i \in 1..Len(d) |-> d[i].key]

HasKey(d, k) == \E i \in 1..Len(d) : d[i].key = k

\* d[k], for a key that is present
Get(d, k) == d[CHOOSE i \in 1..Len(d) : d[i].key = k].value

\* d[k] = v: an existing key keeps its place, a new key goes last
DictSet(d, k, v) ==
    IF HasKey(d, k)
    THEN [i \in 1..Len(d) |-> IF d[i].key = k THEN [key |-> k, value |-> v] ELSE d[i]]
    ELSE Append(d, [key |-> k, value |-> v])

(***************************************************************************)
(* Location Descriptor (helpers.bigquery_location.BigQueryLocation).       *)
(* order and limit are optional: <<>> is None, <<x>> is x.                 *)
(***************************************************************************)
BigQueryLocation(columns, id_column, table, order, limit) ==
    [columns |-> columns, id_column |-> id_column, table |-> table,
     order |-> order, limit |-> limit]

\* BigQueryLocation.get_select_query(include_id)
get_select_query(loc, include_id) ==
    "SELECT "
    \o Join(", ", (IF include_id THEN <<loc.id_column>> ELSE <<>>) \o loc.columns)
    \o " FROM " \o Backtick \o loc.table \o Backtick
    \o (IF loc.order = <<>> THEN "" ELSE " ORDER BY " \o loc.order[1])
    \o (IF loc.limit = <<>> THEN "" ELSE " LIMIT " \o ToString(loc.limit[1]))

(***************************************************************************)
(* The statement templates and the job prefix (class attributes).          *)
(***************************************************************************)
create_model_query(sql_model_path, options, train_query, eval_data) ==
    "\nCREATE OR REPLACE MODEL " \o Backtick \o sql_model_path \o Backtick
    \o "\nOPTIONS (\n" \o options \o ")\nAS (\n    WITH train_query AS ("
    \o train_query \o "),\n         eval_data AS (" \o eval_data
    \o ")\n    SELECT *, false as is_eval FROM train_query UNION ALL \n"
    \o "    SELECT *, true as is_eval FROM eval_data\n)\n"

predict_query(id_column, target_column, sql_model_path, predict_q) ==
    "\nSELECT " \o id_column \o ", predicted_" \o target_column
    \o " FROM ML.PREDICT(MODEL " \o Backtick \o sql_model_path \o Backtick
    \o ", (" \o predict_q \o "))\n"

train_metric_query(sql_model_path) ==
    "\nSELECT * FROM ML.TRAINING_INFO(MODEL " \o Backtick \o sql_model_path
    \o Backtick \o ") ORDER BY iteration\n    "

job_id_prefix == "mlflow_model_"

(***************************************************************************)
(* The pure parts of the adapter's operations.                             *)
(***************************************************************************)
\* f'{self.model_id}_{self.model_version}'
model_id_version(model_id, model_version) == model_id \o "_" \o model_version

\* f'{self.project}.{self.dataset}.{self.model_id_version}'
sql_model_path(project, dataset, id_version) ==
    project \o "." \o dataset \o "." \o id_version

\* 'data_split_method'.lower()
SplitMethodKey == Lower("data_split_method")

\* HasSplitMethod as a comparison that minds the letter case
HasSplitMethod_CaseSensitive(kwargs) ==
    \E i \in 1..Len(kwargs) : kwargs[i].key = "data_split_method"

\* 'data_split_method'.lower() in [key.lower() for key in kwargs.keys()]
HasSplitMethod(kwargs) ==
    \E i \in 1..Len(kwargs) : Lower(kwargs[i].key) = SplitMethodKey

\* self.kwargs after instantiate_model(..., **kwargs)
InstantiateKwargs(kwargs) ==
    IF ~HasSplitMethod(kwargs)
    THEN DictSet(DictSet(kwargs, "data_split_method", StrV("CUSTOM")),
                 "data_split_col", StrV("is_eval"))
    ELSE kwargs

\* The adapter after __init__(project, dataset): the attributes that
\* instantiate_model sets do not exist yet (instantiated = FALSE).
NewAdapter(project, dataset) ==
    [project |-> project, dataset |-> dataset, instantiated |-> FALSE,
     model_id |-> "", model_version |-> "", model_id_version |-> "",
     sql_model_path |-> "", kwargs |-> <<>>]

\* Instantiated as self.kwargs.update(kwargs): the entries of the earlier
\* configuration survive
Instantiated_Merging(self, model_id, model_version, kwargs) ==
    [self EXCEPT
       !.instantiated = TRUE,
       !.model_id = model_id,
       !.model_version = model_version,
       !.model_id_version = model_id \o "_" \o model_version,
       !.sql_model_path =
           self.project \o "." \o self.dataset \o "." \o model_id \o "_" \o model_version,
       !.kwargs =
           IF HasKey(self.kwargs, "input_label_cols")
           THEN DictSet(InstantiateKwargs(kwargs), "input_label_cols",
                        Get(self.kwargs, "input_label_cols"))
           ELSE InstantiateKwargs(kwargs)]

\* The adapter after instantiate_model(model_id, model_version, **kwargs)
Instantiated(self, model_id, model_version, kwargs) ==
    [self EXCEPT
       !.instantiated = TRUE,
       !.model_id = model_id,
       !.model_version = model_version,
       !.model_id_version = model_id_version(model_id, model_version),
       !.sql_model_path =
           sql_model_path(self.project, self.dataset,
                          model_id_version(model_id, model_version)),
       !.kwargs = InstantiateKwargs(kwargs)]

\* self.kwargs['input_label_cols'] = train_y.columns
FitKwargs(kwargs, train_y) ==
    DictSet(kwargs, "input_label_cols", ListV(train_y.columns))

\* RenderOption with every value between single quotes
RenderOption_QuoteAll(key, value) == key \o "='" \o PyStr(value) \o "'"

\* One element of the options list of fit: key=value, the value between
\* single quotes when it is a str.
RenderOption(key, value) ==
    key \o "=" \o (IF IsStr(value) THEN "'" ELSE "") \o PyStr(value)
        \o (IF IsStr(value) THEN "'" ELSE "")

\* options = ',\n'.join([... for key, value in self.kwargs.items()])
FitOptions(kwargs) ==
    Join(",\n", [i \in 1..Len(kwargs) |-> RenderOption(kwargs[i].key, kwargs[i].value)])

\* FitDataLocation without the label columns
FitDataLocation_NoLabels(x, y) ==
    BigQueryLocation(x.columns, x.id_column, x.table, x.order, x.limit)

\* train_data_location / eval_data_location of fit
FitDataLocation(x, y) ==
    BigQueryLocation(x.columns \o y.columns, x.id_column, x.table, x.order, x.limit)

\* The statement fit submits; self is the adapter after the label columns
\* were stored.
FitStatement(self, train_x, train_y, eval_x, eval_y) ==
    create_model_query(self.sql_model_path,
                       FitOptions(self.kwargs),
                       get_select_query(FitDataLocation(train_x, train_y), FALSE),
                       get_select_query(FitDataLocation(eval_x, eval_y), FALSE))

\* self.kwargs['input_label_cols'][0]: the fault it raises ("" when none)
TargetFault(self) ==
    IF ~self.instantiated THEN "AttributeError"
    ELSE IF ~HasKey(self.kwargs, "input_label_cols") THEN "KeyError"
    ELSE LET v == Get(self.kwargs, "input_label_cols")
         IN  CASE v.t = "list" -> (IF v.l = <<>> THEN "IndexError" ELSE "")
               [] v.t = "str"  -> (IF v.s = "" THEN "IndexError" ELSE "")
               [] OTHER        -> "TypeError"

\* self.kwargs['input_label_cols'][0], when it raises nothing
TargetColumn(self) ==
    LET v == Get(self.kwargs, "input_label_cols")
    IN  IF v.t = "list" THEN v.l[1] ELSE Head(v.s)

\* The statement predict submits
PredictStatement(self, data, target_column) ==
    predict_query(data.id_column, target_column, self.sql_model_path,
                  get_select_query(data, TRUE))

\* PredictLocation without order=data.order
PredictLocation_NoOrder(data, target_column, destination) ==
    BigQueryLocation(<<"predicted_" \o target_column>>,
                     data.id_column,
                     destination.project \o "." \o destination.dataset_id
                         \o "." \o destination.table_id,
                     <<>>,
                     <<>>)

\* destination_location of predict
PredictLocation(data, target_column, destination) ==
    BigQueryLocation(<<"predicted_" \o target_column>>,
                     data.id_column,
                     destination.project \o "." \o destination.dataset_id
                         \o "." \o destination.table_id,
                     data.order,
                     <<>>)

\* MetricRecord with loss and eval_loss exchanged
MetricRecord_Swapped(row) ==
    [metrics |-> [loss |-> row.eval_loss, eval_loss |-> row.loss,
                  duration_ms |-> row.duration_ms,
                  learning_rate |-> row.learning_rate],
     step |-> row.iteration]

\* One element of metrics_struct_list
MetricRecord(row) ==
    [metrics |-> [loss |-> row.loss, eval_loss |-> row.eval_loss,
                  duration_ms |-> row.duration_ms,
                  learning_rate |-> row.learning_rate],
     step |-> row.iteration]

\* metrics_struct_list after the loop over the rows
MetricsList(rows) == [i \in 1..Len(rows) |-> MetricRecord(rows[i])]

(***************************************************************************)
(* The inputs the callers and the warehouse supply.                        *)
(***************************************************************************)
Projects == {"proj"}

Datasets == {"ds"}

ModelIds == {"churn", "churn_v2"}

ModelVersions == {"1", "v2_1"}

\* <<model_id, model_version>> of the two-adapter specification
Identities == ModelIds \X ModelVersions

\* <<model_id, model_version>> of the one-adapter specifications
OneIdentity == {<<"churn", "1">>}

\* The options a caller may pass, one entry each: str, int and bool values,
\* the split method under two spellings, the split column, and the label
\* columns given as an option.
EntryPool ==
    { [key |-> "model_type",        value |-> StrV("boosted_tree")],
      [key |-> "max_iterations",    value |-> IntV(50)],
      [key |-> "early_stop",        value |-> BoolV(FALSE)],
      [key |-> "Data_Split_Method", value |-> StrV("AUTO_SPLIT")],
      [key |-> "data_split_method", value |-> StrV("NO_SPLIT")],
      [key |-> "data_split_col",    value |-> StrV("fold")],
      [key |-> "input_label_cols",  value |-> ListV(<<"z">>)] }

\* **kwargs: at most n entries of pool, no key twice, in any order
KwargsOver(pool, n) ==
    { d \in UNION { [1..k -> pool] : k \in 0..n } :
        \A i, j \in 1..Len(d) : i # j => d[i].key # d[j].key }

\* The options of the specification of the configuration: all but the label
\* columns
Options == KwargsOver({ e \in EntryPool : e.key # "input_label_cols" }, MaxOpts)

\* The options of the specification of the calls: with and without a split
\* method, with and without input_label_cols
CallOptions ==
    KwargsOver({ e \in EntryPool : e.key \in {"Data_Split_Method", "input_label_cols"} },
               MaxOpts)

\* Options that never hold input_label_cols
PlainOptions ==
    KwargsOver({ e \in EntryPool : e.key \in {"model_type", "data_split_method"} },
               MaxOpts)

\* The options of the two-adapter specification
PairOptions == {<<>>}

LabelNames == <<"y", "w", "v", "u">>

TrainX == BigQueryLocation(<<"a", "b">>, "id", "proj.ds.train", <<>>, <<>>)

TrainY(n) == BigQueryLocation(SubSeq(LabelNames, 1, n), "id", "proj.ds.train", <<>>, <<>>)

EvalX == BigQueryLocation(<<"a", "b">>, "id", "proj.ds.eval", <<"ts">>, <<100>>)

EvalY(n) ==
    BigQueryLocation([i \in 1..n |-> "e_" \o LabelNames[i]], "id", "proj.ds.eval",
                     <<"ts">>, <<100>>)

\* <<train_x, train_y, eval_x, eval_y>>
FitInputs == { <<TrainX, TrainY(n), EvalX, EvalY(n)>> : n \in 0..MaxLabelCols }

NewData == BigQueryLocation(<<"a", "b">>, "id", "proj.ds.new", <<>>, <<>>)

OneFit == { <<TrainX, TrainY(1), EvalX, EvalY(1)>> }

\* The fit of the specification of the configuration: the most label columns
WideFit == { <<TrainX, TrainY(MaxLabelCols), EvalX, EvalY(MaxLabelCols)>> }

PredictInputs ==
    { NewData, BigQueryLocation(<<"a">>, "row_id", "proj.ds.recent", <<"ts">>, <<10>>) }

Paths == {"/tmp/model"}

\* job.destination of a finished job
Destinations ==
    { [project |-> "proj", dataset_id |-> "_anon", table_id |-> t] : t \in {"t1", "t2"} }

NoDestination == [project |-> "", dataset_id |-> "", table_id |-> ""]

OneDestination == { [project |-> "proj", dataset_id |-> "_anon", table_id |-> "t1"] }

\* One row of ML.TRAINING_INFO: iteration it of run k
Row(it, k) ==
    [iteration |-> it, loss |-> 10 * k + it, eval_loss |-> 20 * k + it,
     duration_ms |-> 100 * k + it, learning_rate |-> k]

\* job.result() of a training-diagnostics job: ORDER BY iteration
ResultSets ==
    UNION { { [i \in 1..n |-> Row(i - 1, ks[i])] : ks \in [1..n -> {1, 2}] } :
            n \in 0..MaxRows }

(***************************************************************************)
(* State.                                                                  *)
(*   ad[a]    the attributes of adapter a                                  *)
(*   call[a]  the latest call on a: its operation, arguments (args: the    *)
(*            descriptors, opts: the **kwargs) and locals, whether it      *)
(*            waits for its job, returned or raised, what it returned,     *)
(*            and how many jobs it submitted (nsub)                        *)
(*   job[a]   the job the latest call on a handed to run_query_and_wait    *)
(*            (query_job), none when that call submitted nothing           *)
(*   hist[a]  history: whether fit was invoked since the latest            *)
(*            instantiate_model, and the columns the latest fit stored     *)
(***************************************************************************)
Adapters == DOMAIN ad

NoCall ==
    [op |-> "none", state |-> "returned", fault |-> "", args |-> <<>>,
     opts |-> <<>>, target |-> "", nsub |-> 0, loc |-> <<>>, metrics |-> <<>>]

NoJob ==
    [sql |-> "", prefix |-> "", status |-> "none",
     destination |-> NoDestination, rows |-> <<>>]

NoHist == [fitSince |-> FALSE, hadFit |-> FALSE, fitCols |-> <<>>]

\* A call of op that returned without a value
Returned(op, args) == [NoCall EXCEPT !.op = op, !.args = args]

\* A call of op that raised fault before it submitted anything
Raised(op, args, fault) ==
    [NoCall EXCEPT !.op = op, !.args = args, !.state = "raised", !.fault = fault]

\* run_query_and_wait(sql, job_id_prefix): the job as submitted
Submitted(sql, prefix) ==
    [NoJob EXCEPT !.sql = sql, !.prefix = prefix, !.status = "running"]

\* A call of op that has submitted its job and waits for it
Waiting(op, args, target) ==
    [NoCall EXCEPT !.op = op, !.args = args, !.target = target,
                   !.state = "waiting", !.nsub = 1]

Idle(a) == call[a].state # "waiting"

InitOver(ids) ==
    /\ ad \in [ids -> { NewAdapter(p, d) : p \in Projects, d \in Datasets }]
    /\ call = [a \in ids |-> NoCall]
    /\ job = [a \in ids |-> NoJob]
    /\ hist = [a \in ids |-> NoHist]

Init == InitOver({1})

InitPair == InitOver({1, 2})

(***************************************************************************)
(* The operations.  A call that reaches run_query_and_wait is two steps:   *)
(* up to the submission, and from the end of the wait to the return; the   *)
(* warehouse finishes the job in between.                                  *)
(***************************************************************************)
instantiate_model(a, model_id, model_version, kwargs) ==
    /\ Idle(a)
    /\ ad' = [ad EXCEPT ![a] = Instantiated(@, model_id, model_version, kwargs)]
    /\ call' = [call EXCEPT ![a] =
                  [Returned("instantiate_model", <<>>) EXCEPT !.opts = kwargs]]
    /\ job' = [job EXCEPT ![a] = NoJob]
    /\ hist' = [hist EXCEPT ![a].fitSince = FALSE]

\* fit, to the submission of the create-model statement
fit(a, train_x, train_y, eval_x, eval_y) ==
    LET args == <<train_x, train_y, eval_x, eval_y>>
        self == [ad[a] EXCEPT !.kwargs = FitKwargs(@, train_y)]
    IN  /\ Idle(a)
        /\ IF ~ad[a].instantiated
           THEN /\ call' = [call EXCEPT ![a] = Raised("fit", args, "AttributeError")]
                /\ job' = [job EXCEPT ![a] = NoJob]
                /\ UNCHANGED <<ad, hist>>
           ELSE /\ ad' = [ad EXCEPT ![a] = self]
                /\ job' = [job EXCEPT ![a] =
                             Submitted(FitStatement(self, train_x, train_y, eval_x, eval_y),
                                       job_id_prefix)]
                /\ call' = [call EXCEPT ![a] = Waiting("fit", args, "")]
                /\ hist' = [hist EXCEPT ![a] =
                              [fitSince |-> TRUE, hadFit |-> TRUE,
                               fitCols |-> train_y.columns]]

\* fit_return that submits the statement once more when the job failed
fit_return_retry(a) ==
    /\ call[a].op = "fit" /\ call[a].state = "waiting"
    /\ job[a].status \in {"done", "failed"}
    /\ IF job[a].status = "failed"
       THEN /\ job' = [job EXCEPT ![a] = Submitted(job[a].sql, job_id_prefix)]
            /\ call' = [call EXCEPT ![a].nsub = @ + 1]
       ELSE /\ call' = [call EXCEPT ![a].state = "returned"]
            /\ UNCHANGED job
    /\ UNCHANGED <<ad, hist>>

\* fit, after run_query_and_wait
fit_return(a) ==
    /\ call[a].op = "fit" /\ call[a].state = "waiting"
    /\ job[a].status \in {"done", "failed"}
    /\ call' = [call EXCEPT ![a] =
                  IF job[a].status = "failed"
                  THEN [@ EXCEPT !.state = "raised", !.fault = "JobError"]
                  ELSE [@ EXCEPT !.state = "returned"]]
    /\ UNCHANGED <<ad, job, hist>>

\* predict as self.kwargs.get('input_label_cols', ['label'])[0]
predict_default_label(a, data) ==
    LET target == IF TargetFault(ad[a]) = "KeyError" THEN "label" ELSE TargetColumn(ad[a])
    IN  /\ Idle(a)
        /\ IF TargetFault(ad[a]) \notin {"", "KeyError"}
           THEN /\ call' = [call EXCEPT ![a] =
                              Raised("predict", <<data>>, TargetFault(ad[a]))]
                /\ job' = [job EXCEPT ![a] = NoJob]
           ELSE /\ job' = [job EXCEPT ![a] =
                             Submitted(PredictStatement(ad[a], data, target),
                                       job_id_prefix)]
                /\ call' = [call EXCEPT ![a] = Waiting("predict", <<data>>, target)]
        /\ UNCHANGED <<ad, hist>>

\* predict, to the submission of the prediction statement
predict(a, data) ==
    /\ Idle(a)
    /\ IF TargetFault(ad[a]) # ""
       THEN /\ call' = [call EXCEPT ![a] = Raised("predict", <<data>>, TargetFault(ad[a]))]
            /\ job' = [job EXCEPT ![a] = NoJob]
       ELSE /\ job' = [job EXCEPT ![a] =
                         Submitted(PredictStatement(ad[a], data, TargetColumn(ad[a])),
                                   job_id_prefix)]
            /\ call' = [call EXCEPT ![a] =
                          Waiting("predict", <<data>>, TargetColumn(ad[a]))]
    /\ UNCHANGED <<ad, hist>>

\* predict, after run_query_and_wait
predict_return(a) ==
    /\ call[a].op = "predict" /\ call[a].state = "waiting"
    /\ job[a].status \in {"done", "failed"}
    /\ call' = [call EXCEPT ![a] =
                  IF job[a].status = "failed"
                  THEN [@ EXCEPT !.state = "raised", !.fault = "JobError"]
                  ELSE [@ EXCEPT !.state = "returned",
                                 !.loc = <<PredictLocation(call[a].args[1],
                                                           call[a].target,
                                                           job[a].destination)>>]]
    /\ UNCHANGED <<ad, job, hist>>

\* save that drops the configuration
save_clearing(a, folder_path) ==
    /\ Idle(a)
    /\ ad' = [ad EXCEPT ![a].kwargs = <<>>]
    /\ call' = [call EXCEPT ![a] = Returned("save", <<>>)]
    /\ job' = [job EXCEPT ![a] = NoJob]
    /\ UNCHANGED hist

save(a, folder_path) ==
    /\ Idle(a)
    /\ call' = [call EXCEPT ![a] = Returned("save", <<>>)]
    /\ job' = [job EXCEPT ![a] = NoJob]
    /\ UNCHANGED <<ad, hist>>

load(a, folder_path) ==
    /\ Idle(a)
    /\ call' = [call EXCEPT ![a] = Returned("load", <<>>)]
    /\ job' = [job EXCEPT ![a] = NoJob]
    /\ UNCHANGED <<ad, hist>>

\* get_train_metrics, to the submission of the diagnostics statement
get_train_metrics(a) ==
    /\ Idle(a)
    /\ IF ~ad[a].instantiated
       THEN /\ call' = [call EXCEPT ![a] =
                          Raised("get_train_metrics", <<>>, "AttributeError")]
            /\ job' = [job EXCEPT ![a] = NoJob]
       ELSE /\ job' = [job EXCEPT ![a] =
                         Submitted(train_metric_query(ad[a].sql_model_path),
                                   job_id_prefix)]
            /\ call' = [call EXCEPT ![a] = Waiting("get_train_metrics", <<>>, "")]
    /\ UNCHANGED <<ad, hist>>

\* get_train_metrics, after run_query_and_wait
get_train_metrics_return(a) ==
    /\ call[a].op = "get_train_metrics" /\ call[a].state = "waiting"
    /\ job[a].status \in {"done", "failed"}
    /\ call' = [call EXCEPT ![a] =
                  IF job[a].status = "failed"
                  THEN [@ EXCEPT !.state = "raised", !.fault = "JobError"]
                  ELSE [@ EXCEPT !.state = "returned",
                                 !.metrics = MetricsList(job[a].rows)]]
    /\ UNCHANGED <<ad, job, hist>>

\* The warehouse ends the running job of a: it fails, or it finishes with a
\* destination table (read by predict) and result rows (read by
\* get_train_metrics).
job_ends(a, dests, results) ==
    /\ job[a].status = "running"
    /\ \/ job' = [job EXCEPT ![a].status = "failed"]
       \/ \E d \in (IF call[a].op = "predict" THEN dests ELSE {NoDestination}),
             r \in (IF call[a].op = "get_train_metrics" THEN results ELSE {<<>>}) :
            job' = [job EXCEPT ![a].status = "done", ![a].destination = d, ![a].rows = r]
    /\ UNCHANGED <<ad, call, hist>>

\* One adapter, every option a caller may pass
Next ==
    \/ \E a \in Adapters, id \in OneIdentity, k \in Options :
          instantiate_model(a, id[1], id[2], k)
    \/ \E a \in Adapters, f \in WideFit : fit(a, f[1], f[2], f[3], f[4])
    \/ \E a \in Adapters : fit_return(a)
    \/ \E a \in Adapters, d \in {NewData} : predict(a, d)
    \/ \E a \in Adapters : predict_return(a)
    \/ \E a \in Adapters, p \in Paths : save(a, p)
    \/ \E a \in Adapters, p \in Paths : load(a, p)
    \/ \E a \in Adapters : get_train_metrics(a)
    \/ \E a \in Adapters : get_train_metrics_return(a)
    \/ \E a \in Adapters : job_ends(a, OneDestination, {<<>>})

Spec == Init /\ [][Next]_vars

\* One adapter, every descriptor a caller may pass and every answer of the
\* warehouse
NextCalls ==
    \/ \E a \in Adapters, id \in OneIdentity, k \in CallOptions :
          instantiate_model(a, id[1], id[2], k)
    \/ \E a \in Adapters, f \in FitInputs : fit(a, f[1], f[2], f[3], f[4])
    \/ \E a \in Adapters : fit_return(a)
    \/ \E a \in Adapters, d \in PredictInputs : predict(a, d)
    \/ \E a \in Adapters : predict_return(a)
    \/ \E a \in Adapters, p \in Paths : save(a, p)
    \/ \E a \in Adapters, p \in Paths : load(a, p)
    \/ \E a \in Adapters : get_train_metrics(a)
    \/ \E a \in Adapters : get_train_metrics_return(a)
    \/ \E a \in Adapters : job_ends(a, Destinations, ResultSets)

SpecCalls == Init /\ [][NextCalls]_vars

\* One adapter, called with options that never hold input_label_cols
NextPlain ==
    \/ \E a \in Adapters, id \in OneIdentity, k \in PlainOptions :
          instantiate_model(a, id[1], id[2], k)
    \/ \E a \in Adapters, f \in FitInputs : fit(a, f[1], f[2], f[3], f[4])
    \/ \E a \in Adapters : fit_return(a)
    \/ \E a \in Adapters, d \in PredictInputs : predict(a, d)
    \/ \E a \in Adapters : predict_return(a)
    \/ \E a \in Adapters, p \in Paths : save(a, p)
    \/ \E a \in Adapters, p \in Paths : load(a, p)
    \/ \E a \in Adapters : get_train_metrics(a)
    \/ \E a \in Adapters : get_train_metrics_return(a)
    \/ \E a \in Adapters : job_ends(a, OneDestination, {<<>>})

SpecPlain == Init /\ [][NextPlain]_vars

\* Two adapters of the same project and dataset, their calls interleaved
NextPair ==
    \/ \E a \in Adapters, id \in Identities, k \in PairOptions :
          instantiate_model(a, id[1], id[2], k)
    \/ \E a \in Adapters, f \in OneFit : fit(a, f[1], f[2], f[3], f[4])
    \/ \E a \in Adapters : fit_return(a)
    \/ \E a \in Adapters, d \in {NewData} : predict(a, d)
    \/ \E a \in Adapters : predict_return(a)
    \/ \E a \in Adapters, p \in Paths : save(a, p)
    \/ \E a \in Adapters, p \in Paths : load(a, p)
    \/ \E a \in Adapters : get_train_metrics(a)
    \/ \E a \in Adapters : get_train_metrics_return(a)
    \/ \E a \in Adapters : job_ends(a, OneDestination, {<<>>})

SpecPair == InitPair /\ [][NextPair]_vars

(***************************************************************************)
(* Reading a statement back: the helpers of the properties below.          *)
(***************************************************************************)
StartsWith(s, p) == Len(s) >= Len(p) /\ SubSeq(s, 1, Len(p)) = p

EndsWith(s, p) == Len(s) >= Len(p) /\ SubSeq(s, Len(s) - Len(p) + 1, Len(s)) = p

\* The first place at or after i where sub starts in s, 0 when there is none
Find(s, sub, i) ==
    LET hits == { j \in i..(Len(s) - Len(sub) + 1) : SubSeq(s, j, j + Len(sub) - 1) = sub }
    IN  IF hits = {} THEN 0 ELSE CHOOSE j \in hits : \A k \in hits : j <= k

RECURSIVE Split(_, _)
\* The pieces of s between the occurrences of sep
Split(s, sep) ==
    LET i == Find(s, sep, 1)
    IN  IF i = 0 THEN <<s>>
        ELSE <<SubSeq(s, 1, i - 1)>> \o Split(SubSeq(s, i + Len(sep), Len(s)), sep)

\* The latest call on a is a fit that got as far as its statement
FitSubmitted(a) == call[a].op = "fit" /\ call[a].fault # "AttributeError"

\* The text between "OPTIONS (" and ") AS (" of the statement of a's fit
OptionsClause(a) ==
    LET sql   == job[a].sql
        open  == "\nOPTIONS (\n"
        start == Find(sql, open, 1) + Len(open)
        stop  == Find(sql, ")\nAS (\n", start)
    IN  SubSeq(sql, start, stop - 1)

(***************************************************************************)
(* C1.  instantiate_model injects the split defaults if and only if no     *)
(* key of the caller's options equals 'data_split_method' when letter case *)
(* is ignored.  Without such a key the configuration afterwards holds      *)
(* data_split_method = 'CUSTOM' and data_split_col = 'is_eval', keeps      *)
(* every other entry of the caller and holds no further key; with such a   *)
(* key, in any letter case, the configuration is the caller's options.     *)
(***************************************************************************)
C1_SplitGiven(opts) ==
    \E i \in 1..Len(opts) : Lower(opts[i].key) = "data_split_method"

C1_DefaultKeys == {"data_split_method", "data_split_col"}

C1_SplitDefault ==
    \A a \in Adapters :
        call[a].op = "instantiate_model" =>
            LET opts == call[a].opts
                kw   == ad[a].kwargs
            IN  IF C1_SplitGiven(opts)
                THEN kw = opts
                ELSE /\ HasKey(kw, "data_split_method")
                     /\ Get(kw, "data_split_method") = StrV("CUSTOM")
                     /\ HasKey(kw, "data_split_col")
                     /\ Get(kw, "data_split_col") = StrV("is_eval")
                     /\ \A i \in 1..Len(opts) :
                            opts[i].key \notin C1_DefaultKeys =>
                                HasKey(kw, opts[i].key) /\ Get(kw, opts[i].key) = opts[i].value
                     /\ \A i \in 1..Len(kw) :
                            kw[i].key \in C1_DefaultKeys
                            \/ \E j \in 1..Len(opts) : opts[j].key = kw[i].key

\* The caller gave the split method in mixed case, with another option
C1_Witness ==
    \E a \in Adapters :
        /\ call[a].op = "instantiate_model"
        /\ Len(call[a].opts) = 2
        /\ HasKey(call[a].opts, "Data_Split_Method")
        /\ ~HasKey(ad[a].kwargs, "data_split_col")

\* The caller gave a split column and no split method: the default replaces it
C1_WitnessDefault ==
    \E a \in Adapters :
        /\ call[a].op = "instantiate_model"
        /\ HasKey(call[a].opts, "data_split_col")
        /\ Len(ad[a].kwargs) = 2

(***************************************************************************)
(* C8.  In the options clause of the statement that fit submits, every     *)
(* entry of the configuration appears once, as key=value, in the order of  *)
(* the mapping, the entries joined by commas; the value is between single  *)
(* quotes if and only if it is a str, and an int or a bool is rendered     *)
(* without quotes.                                                         *)
(***************************************************************************)
C8_Rendered(entry, piece) ==
    LET head == entry.key \o "="
        text == SubSeq(piece, Len(head) + 1, Len(piece))
        v    == entry.value
    IN  /\ StartsWith(piece, head)
        /\ CASE v.t = "str"  -> text = "'" \o v.s \o "'"
             [] v.t = "int"  -> text = ToString(v.n)
             [] v.t = "bool" -> text = (IF v.b THEN "True" ELSE "False")
             [] OTHER        -> StartsWith(text, "[") /\ EndsWith(text, "]")

C8_OptionsClause ==
    \A a \in Adapters :
        FitSubmitted(a) =>
            LET pieces == Split(OptionsClause(a), ",\n")
                kw     == ad[a].kwargs
            IN  /\ Len(pieces) = Len(kw)
                /\ \A i \in 1..Len(kw) : C8_Rendered(kw[i], pieces[i])

\* A submitted fit whose configuration holds a str, an int, a bool and a list
C8_Witness ==
    \E a \in Adapters :
        /\ FitSubmitted(a)
        /\ job[a].status = "running"
        /\ HasKey(ad[a].kwargs, "max_iterations")
        /\ HasKey(ad[a].kwargs, "model_type")
        /\ {ad[a].kwargs[i].value.t : i \in 1..Len(ad[a].kwargs)} = {"str", "int", "list"}

(***************************************************************************)
(* Steps of one call, read off two successive states.                      *)
(***************************************************************************)
\* This step is the entry of a call of op on a
Enters(a, op) == Idle(a) /\ call'[a].op = op /\ <<call'[a], job'[a]>> # <<call[a], job[a]>>

\* This step is the return (or the raise) of a's call of op after its wait
Leaves(a, op) == call[a].op = op /\ call[a].state = "waiting" /\ call'[a].state # "waiting"

LocalFaults == {"AttributeError", "KeyError", "IndexError", "TypeError"}

(***************************************************************************)
(* C2.  predict called after instantiate_model and before any fit, the     *)
(* configuration holding no input_label_cols entry, ends with a fault the  *)
(* adapter raises itself (the missing key): no job is submitted during the *)
(* call and the adapter's state is what it was before the call.            *)
(***************************************************************************)
C2_PredictBeforeFit ==
    [][\A a \in Adapters :
          ( /\ ad[a].instantiated
            /\ ~hist[a].fitSince
            /\ ~HasKey(ad[a].kwargs, "input_label_cols")
            /\ Idle(a)
            /\ call'[a].op = "predict" )
          => /\ call'[a].state = "raised"
             /\ call'[a].fault = "KeyError"
             /\ call'[a].nsub = 0
             /\ job'[a].status = "none"
             /\ ad'[a] = ad[a]]_vars

\* predict raised the missing key on an instantiated adapter that never fitted
C2_Witness ==
    \E a \in Adapters :
        /\ ad[a].instantiated
        /\ ~hist[a].hadFit
        /\ call[a].op = "predict"
        /\ call[a].state = "raised"
        /\ call[a].fault = "KeyError"

(***************************************************************************)
(* C3.  A predict(data) call whose job completes returns a new descriptor  *)
(* whose columns are [predicted_<target>], whose identifier column and     *)
(* ordering are those of data, and whose table is                          *)
(* <project>.<dataset_id>.<table_id> of the job's destination; data and    *)
(* the configuration are not modified.                                     *)
(*                                                                         *)
(* As claimed, the target is the first entry of the input_label_cols that  *)
(* the most recent fit stored (C3_TargetOfLatestFit).  As amended, it is   *)
(* the first entry of the input_label_cols the configuration holds when    *)
(* predict is called, which is the list of the most recent fit only when   *)
(* fit was invoked since the latest instantiate_model (C3_PredictResult).  *)
(***************************************************************************)
C3_Described(loc, data, target, destination) ==
    /\ loc.columns = <<"predicted_" \o target>>
    /\ loc.id_column = data.id_column
    /\ loc.order = data.order
    /\ loc.table = destination.project \o "." \o destination.dataset_id
                       \o "." \o destination.table_id

\* The first entry of the value held under input_label_cols
C3_FirstHeld(kwargs) ==
    LET v == Get(kwargs, "input_label_cols")
    IN  IF v.t = "list" THEN v.l[1] ELSE SubSeq(v.s, 1, 1)

C3_TargetOfLatestFit ==
    \A a \in Adapters :
        ( /\ call[a].op = "predict" /\ call[a].state = "returned"
          /\ hist[a].hadFit /\ hist[a].fitCols # <<>> )
        => /\ call[a].target = hist[a].fitCols[1]
           /\ C3_Described(call[a].loc[1], call[a].args[1], hist[a].fitCols[1],
                           job[a].destination)

C3_PredictResult ==
    [][\A a \in Adapters :
          /\ (Enters(a, "predict") \/ Leaves(a, "predict"))
             => ad'[a] = ad[a] /\ hist'[a] = hist[a]
          /\ Leaves(a, "predict") => call'[a].args = call[a].args
          /\ (Leaves(a, "predict") /\ job[a].status = "done")
             => /\ call'[a].state = "returned"
                /\ HasKey(ad[a].kwargs, "input_label_cols")
                /\ call'[a].target = C3_FirstHeld(ad[a].kwargs)
                /\ hist[a].fitSince => call'[a].target = hist[a].fitCols[1]
                /\ Len(call'[a].loc) = 1
                /\ C3_Described(call'[a].loc[1], call[a].args[1],
                                C3_FirstHeld(ad[a].kwargs), job[a].destination)]_vars

\* predict returned a descriptor for ordered data, after a fit
C3_Witness ==
    \E a \in Adapters :
        /\ call[a].op = "predict"
        /\ call[a].state = "returned"
        /\ hist[a].fitSince
        /\ call[a].args[1].order # <<>>
        /\ call[a].loc # <<>>
        /\ job[a].destination.table_id = "t2"

(***************************************************************************)
(* C4.  fit(train_x, train_y, eval_x, eval_y) stores train_y's column list *)
(* under input_label_cols, and the single statement it submits creates or  *)
(* replaces the model at sql_model_path from the union of the training     *)
(* sub-query (train_x's columns, then train_y's, over train_x's table)     *)
(* tagged is_eval=false and the evaluation sub-query (eval_x's columns,    *)
(* then eval_y's, over eval_x's table) tagged is_eval=true.                *)
(***************************************************************************)
C4_SubQuery(x, y) ==
    get_select_query([columns |-> x.columns \o y.columns, id_column |-> x.id_column,
                      table |-> x.table, order |-> x.order, limit |-> x.limit], FALSE)

C4_FitStatement ==
    \A a \in Adapters :
        FitSubmitted(a) =>
            LET train_x == call[a].args[1]
                train_y == call[a].args[2]
                eval_x  == call[a].args[3]
                eval_y  == call[a].args[4]
            IN  /\ HasKey(ad[a].kwargs, "input_label_cols")
                /\ Get(ad[a].kwargs, "input_label_cols") = ListV(train_y.columns)
                /\ call[a].nsub = 1
                /\ StartsWith(job[a].sql,
                       "\nCREATE OR REPLACE MODEL " \o Backtick \o ad[a].sql_model_path
                           \o Backtick \o "\nOPTIONS (\n")
                /\ EndsWith(job[a].sql,
                       ")\nAS (\n    WITH train_query AS (" \o C4_SubQuery(train_x, train_y)
                           \o "),\n         eval_data AS (" \o C4_SubQuery(eval_x, eval_y)
                           \o ")\n    SELECT *, false as is_eval FROM train_query UNION ALL \n"
                           \o "    SELECT *, true as is_eval FROM eval_data\n)\n")

\* A fit with two label columns has submitted its statement
C4_Witness ==
    \E a \in Adapters :
        /\ FitSubmitted(a)
        /\ job[a].status = "running"
        /\ Len(call[a].args[2].columns) = 2

(***************************************************************************)
(* C5.  get_train_metrics returns one Metric record per row of the job's   *)
(* result, in the order of the rows: record i has step = row i's iteration *)
(* and metrics {loss, eval_loss, duration_ms, learning_rate} equal to the  *)
(* fields of row i of the same names, so rows in ascending iteration order *)
(* give records in ascending step order.  The call leaves the              *)
(* configuration as it was.                                                *)
(***************************************************************************)
C5_Ascending(ns) == \A i, j \in 1..Len(ns) : i < j => ns[i] < ns[j]

C5_Metrics ==
    [][\A a \in Adapters :
          /\ (Enters(a, "get_train_metrics") \/ Leaves(a, "get_train_metrics"))
             => ad'[a] = ad[a]
          /\ (Leaves(a, "get_train_metrics") /\ job[a].status = "done")
             => LET rows == job[a].rows
                    out  == call'[a].metrics
                IN  /\ call'[a].state = "returned"
                    /\ Len(out) = Len(rows)
                    /\ \A i \in 1..Len(rows) :
                          /\ out[i].step = rows[i].iteration
                          /\ DOMAIN out[i].metrics =
                                {"loss", "eval_loss", "duration_ms", "learning_rate"}
                          /\ out[i].metrics.loss = rows[i].loss
                          /\ out[i].metrics.eval_loss = rows[i].eval_loss
                          /\ out[i].metrics.duration_ms = rows[i].duration_ms
                          /\ out[i].metrics.learning_rate = rows[i].learning_rate
                    /\ C5_Ascending([i \in 1..Len(rows) |-> rows[i].iteration])
                          => C5_Ascending([i \in 1..Len(out) |-> out[i].step])]_vars

\* get_train_metrics returned the records of two rows
C5_Witness ==
    \E a \in Adapters :
        /\ call[a].op = "get_train_metrics"
        /\ call[a].state = "returned"
        /\ Len(job[a].rows) = 2
        /\ Len(call[a].metrics) = 2

(***************************************************************************)
(* C6.  A call of fit, predict or get_train_metrics that reaches the       *)
(* warehouse submits exactly one job, tagged with the prefix               *)
(* 'mlflow_model_', and returns only after that job has completed; when    *)
(* the job fails the call ends with that failure and nothing is submitted  *)
(* again.  instantiate_model, save and load submit no job.                 *)
(***************************************************************************)
C6_OneJobPerCall ==
    \A a \in Adapters :
        IF call[a].op \in {"fit", "predict", "get_train_metrics"}
        THEN \/ /\ call[a].state = "raised"
                /\ call[a].fault \in LocalFaults
                /\ call[a].nsub = 0
                /\ job[a].status = "none"
             \/ /\ call[a].nsub = 1
                /\ job[a].prefix = "mlflow_model_"
                /\ job[a].status \in {"running", "done", "failed"}
                /\ call[a].state = "returned" => job[a].status = "done"
                /\ call[a].state = "raised"
                       => job[a].status = "failed" /\ call[a].fault = "JobError"
                /\ job[a].status = "running" => call[a].state = "waiting"
        ELSE /\ call[a].nsub = 0
             /\ job[a].status = "none"
             /\ call[a].state = "returned"

\* A fit ended with the failure of its only job
C6_Witness ==
    \E a \in Adapters :
        /\ call[a].op = "fit"
        /\ call[a].state = "raised"
        /\ call[a].fault = "JobError"
        /\ call[a].nsub = 1
        /\ job[a].status = "failed"

(***************************************************************************)
(* C9.  save(path) and load(path) are no-ops in every state of the         *)
(* adapter, before or after instantiate_model, before or after fit: they   *)
(* can be called and do not raise, they submit no job, and they leave      *)
(* every field of the adapter, the configuration with its input_label_cols *)
(* included, as it was.                                                    *)
(***************************************************************************)
C9_SaveLoadNoOp ==
    [][\A a \in Adapters :
          /\ Idle(a) => \A p \in Paths : ENABLED save(a, p) /\ ENABLED load(a, p)
          /\ (Idle(a) /\ call'[a].op \in {"save", "load"})
             => /\ ad'[a] = ad[a]
                /\ hist'[a] = hist[a]
                /\ call'[a].state = "returned"
                /\ call'[a].nsub = 0
                /\ job'[a].status = "none"]_vars

\* load returned on an adapter whose configuration holds the label columns
C9_Witness ==
    \E a \in Adapters :
        /\ call[a].op = "load"
        /\ call[a].state = "returned"
        /\ ad[a].instantiated
        /\ HasKey(ad[a].kwargs, "input_label_cols")
        /\ hist[a].fitSince

\* save returned on an adapter that was never instantiated
C9_WitnessNew ==
    \E a \in Adapters : call[a].op = "save" /\ ~ad[a].instantiated

(***************************************************************************)
(* C10.  With options that never hold input_label_cols, the configuration  *)
(* holds an input_label_cols entry exactly when fit was invoked since the  *)
(* most recent instantiate_model: fit writes it before it submits its job, *)
(* so it stays when that job fails; instantiate_model replaces the whole   *)
(* configuration, so that a predict after it, with no new fit, raises the  *)
(* missing key and submits nothing.                                        *)
(***************************************************************************)
C10_LabelsSinceFit ==
    \A a \in Adapters :
        /\ ~ad[a].instantiated => ad[a].kwargs = <<>> /\ ~hist[a].fitSince
        /\ ad[a].instantiated =>
              (HasKey(ad[a].kwargs, "input_label_cols") <=> hist[a].fitSince)
        /\ (ad[a].instantiated /\ call[a].op = "predict" /\ ~hist[a].fitSince)
              => /\ call[a].state = "raised"
                 /\ call[a].fault = "KeyError"
                 /\ call[a].nsub = 0
                 /\ job[a].status = "none"

\* predict raised the missing key after a fit and a later instantiate_model
C10_Witness ==
    \E a \in Adapters :
        /\ ad[a].instantiated
        /\ hist[a].hadFit
        /\ ~hist[a].fitSince
        /\ call[a].op = "predict"
        /\ call[a].fault = "KeyError"

\* The entry is held after the job of fit failed
C10_WitnessFailedFit ==
    \E a \in Adapters :
        /\ call[a].op = "fit"
        /\ call[a].fault = "JobError"
        /\ HasKey(ad[a].kwargs, "input_label_cols")

(***************************************************************************)
(* C7.  Two adapters created for distinct models, that is with distinct    *)
(* (project, dataset, model_id, model_version), have distinct              *)
(* sql_model_path, so no job of one names the model path of the other.     *)
(***************************************************************************)
Identity(self) == <<self.project, self.dataset, self.model_id, self.model_version>>

\* The statement names the model at path
NamesModel(sql, path) == Find(sql, "MODEL " \o Backtick \o path \o Backtick, 1) # 0

C7_DistinctModelPaths ==
    \A a, b \in Adapters :
        ( /\ a # b
          /\ ad[a].instantiated /\ ad[b].instantiated
          /\ Identity(ad[a]) # Identity(ad[b]) )
        => /\ ad[a].sql_model_path # ad[b].sql_model_path
           /\ job[a].status = "running" => ~NamesModel(job[a].sql, ad[b].sql_model_path)

\* No step of one adapter changes the attributes, the call or the job of
\* the other.
C7_NoSharedState ==
    [][\A a, b \in Adapters :
          (a # b /\ <<ad'[a], call'[a], job'[a], hist'[a]>> # <<ad[a], call[a], job[a], hist[a]>>)
          => <<ad'[b], call'[b], job'[b], hist'[b]>> = <<ad[b], call[b], job[b], hist[b]>>]_vars

\* Two adapters with distinct model paths, one of them training
C7_Witness ==
    \E a, b \in Adapters :
        /\ a # b
        /\ ad[a].instantiated /\ ad[b].instantiated
        /\ ad[a].sql_model_path # ad[b].sql_model_path
        /\ job[a].status = "running"
        /\ call[a].op = "fit"

====
